---- MODULE Spec2Model ----
(***************************************************************************)
(* qutebrowser/utils/resources.py: resolving, enumerating, preloading and  *)
(* reading bundled resource files.                                         *)
(*                                                                         *)
(* A str is a sequence of one-character strings, bytes is a sequence of    *)
(* integers 0..255, and a decoded text is a sequence of code points.       *)
(***************************************************************************)
EXTENDS Integers, Sequences, FiniteSets, TLC

VARIABLES
    frozen,   \* hasattr(sys, 'frozen')
    zipped,   \* importlib_resources.files(qutebrowser) is a zipfile.Path
    tree,     \* what lies under the resource root: [dirs, files]
    cache,    \* _cache: resource name -> decoded text
    last      \* the last call made and its outcome

vars == <<frozen, zipped, tree, cache, last>>

----------------------------------------------------------------------------
(* Bounds *)

\* longest resource name handed to _path
MaxLen == 5

----------------------------------------------------------------------------
(* str helpers *)

sep == "/"

pardir == <<".", ".">>

StartsWith(s, p) == Len(s) >= Len(p) /\ SubSeq(s, 1, Len(p)) = p

EndsWith(s, e) == Len(s) >= Len(e) /\ SubSeq(s, Len(s) - Len(e) + 1, Len(s)) = e

Contains(s, ch) == \E i \in 1..Len(s) : s[i] = ch

\* index of the first occurrence of ch in s, 0 if there is none
RECURSIVE FindFrom(_, _, _)
FindFrom(s, ch, i) ==
    IF i > Len(s) THEN 0 ELSE IF s[i] = ch THEN i ELSE FindFrom(s, ch, i + 1)

Find(s, ch) == FindFrom(s, ch, 1)

\* str.split(ch): the list of segments, <<"">> for the empty str
RECURSIVE split(_, _)
split(s, ch) ==
    LET i == Find(s, ch) IN
    IF i = 0 THEN <<s>>
    ELSE <<SubSeq(s, 1, i - 1)>> \o split(SubSeq(s, i + 1, Len(s)), ch)

InList(x, l) == \E i \in 1..Len(l) : l[i] = x

\* posixpath.isabs
isabs(s) == StartsWith(s, <<sep>>)

\* posixpath.join(a, b)
join(a, b) ==
    IF isabs(b) THEN b
    ELSE IF a = <<>> \/ EndsWith(a, <<sep>>) THEN a \o b
    ELSE a \o <<sep>> \o b

\* the parts pathlib keeps of a relative path: no empty and no "." segments
RECURSIVE PureParts(_)
PureParts(segs) ==
    IF segs = <<>> THEN <<>>
    ELSE IF Head(segs) = <<>> \/ Head(segs) = <<".">> THEN PureParts(Tail(segs))
    ELSE <<Head(segs)>> \o PureParts(Tail(segs))

RECURSIVE JoinParts(_)
JoinParts(parts) ==
    IF parts = <<>> THEN <<>>
    ELSE IF Len(parts) = 1 THEN parts[1]
    ELSE parts[1] \o <<sep>> \o JoinParts(Tail(parts))

\* PurePosixPath(s).as_posix() for a relative s ("." is written here as the empty str)
as_posix(s) == JoinParts(PureParts(split(s, sep)))

\* fnmatch of a name against a pattern with the wildcards * and ?
RECURSIVE fnmatch(_, _)
fnmatch(name, pat) ==
    IF pat = <<>> THEN name = <<>>
    ELSE IF Head(pat) = "*"
         THEN \E k \in 0..Len(name) : fnmatch(SubSeq(name, k + 1, Len(name)), Tail(pat))
    ELSE IF name = <<>> THEN FALSE
    ELSE IF Head(pat) = "?" THEN fnmatch(Tail(name), Tail(pat))
    ELSE Head(name) = Head(pat) /\ fnmatch(Tail(name), Tail(pat))

----------------------------------------------------------------------------
(* Outcomes *)

NoError == "None"

AssertionError == "AssertionError"

FileNotFoundError == "FileNotFoundError"

KeyError == "KeyError"

IsADirectoryError == "IsADirectoryError"

UnicodeDecodeError == "UnicodeDecodeError"

\* what a call that raises returns: nothing, written as no bytes and no text can be
NoValue == <<-1>>

----------------------------------------------------------------------------
(* _path *)

KindPath == "pathlib.Path"

KindTraversable == "Traversable"

\* the pardir test of _path, line 37
HasPardir_substring(filename) ==
    \E i \in 1..(Len(filename) - 1) : SubSeq(filename, i, i + 1) = pardir

HasPardir(filename) == InList(pardir, split(filename, sep))

\* _path(filename): the fault, or the location (its kind, its root, its name under the root)
_path(filename, fr, zp) ==
    IF isabs(filename)
        THEN [err |-> AssertionError, why |-> "not isabs", kind |-> "", root |-> "", name |-> <<>>]
    ELSE IF HasPardir(filename)
        THEN [err |-> AssertionError, why |-> "pardir not in split", kind |-> "", root |-> "", name |-> <<>>]
    ELSE IF fr
        THEN [err |-> NoError, why |-> "", kind |-> KindPath, root |-> "executable.parent", name |-> filename]
    ELSE [err |-> NoError, why |-> "", kind |-> IF zp THEN KindTraversable ELSE KindPath,
          root |-> "files(qutebrowser)", name |-> filename]

----------------------------------------------------------------------------
(* The resource root: tree.dirs is the set of directories under it and     *)
(* tree.files maps each file under it to its bytes, both named by their    *)
(* POSIX path relative to the root.                                        *)

\* the last segment of a path
Name(p) == LET segs == split(p, sep) IN segs[Len(segs)]

\* the path without its last segment, the empty str for a top-level entry
Parent(p) == LET segs == split(p, sep) IN JoinParts(SubSeq(segs, 1, Len(segs) - 1))

Entries(tr) == tr.dirs \cup DOMAIN tr.files

\* the entries directly under directory d
Children(tr, d) == {e \in Entries(tr) : Parent(e) = d}

\* pathlib.Path: resource_path / name is normalised by pathlib
IsDirPath(tr, name) == as_posix(name) = <<>> \/ as_posix(name) \in tr.dirs

IsFilePath(tr, name) == as_posix(name) \in DOMAIN tr.files

\* zipfile.Path: at = posixpath.join(at, name), followed literally; a
\* directory answers to its name with or without the trailing slash
IsDirTraversable(tr, name) ==
    \/ name = <<>>
    \/ name \in tr.dirs
    \/ (EndsWith(name, <<sep>>) /\ SubSeq(name, 1, Len(name) - 1) \in tr.dirs)

IsFileTraversable(tr, name) == name \in DOMAIN tr.files

\* path.read_bytes() on the resolved location. rawmiss is what the archive
\* API raises for an entry it does not hold: KeyError (bpo-43063, Python 3.8
\* and 3.9) or FileNotFoundError.
read_bytes(kind, tr, name, rawmiss) ==
    IF kind = KindPath THEN
        IF IsFilePath(tr, name) THEN [err |-> NoError, data |-> tr.files[as_posix(name)]]
        ELSE IF IsDirPath(tr, name) THEN [err |-> IsADirectoryError, data |-> <<>>]
        ELSE [err |-> FileNotFoundError, data |-> <<>>]
    ELSE
        IF IsFileTraversable(tr, name) THEN [err |-> NoError, data |-> tr.files[name]]
        ELSE IF IsDirTraversable(tr, name) /\ rawmiss # KeyError
            THEN [err |-> IsADirectoryError, data |-> <<>>]
        ELSE [err |-> rawmiss, data |-> <<>>]

\* bytes.decode('utf-8') for one- and two-byte sequences: is the input well formed
RECURSIVE Utf8Valid(_)
Utf8Valid(b) ==
    IF b = <<>> THEN TRUE
    ELSE IF b[1] < 128 THEN Utf8Valid(Tail(b))
    ELSE IF b[1] >= 194 /\ b[1] <= 223 /\ Len(b) >= 2 /\ b[2] >= 128 /\ b[2] <= 191
        THEN Utf8Valid(Tail(Tail(b)))
    ELSE FALSE

\* the code points of a well-formed input
RECURSIVE Utf8Decode(_)
Utf8Decode(b) ==
    IF b = <<>> THEN <<>>
    ELSE IF b[1] < 128 THEN <<b[1]>> \o Utf8Decode(Tail(b))
    ELSE <<(b[1] - 192) * 64 + (b[2] - 128)>> \o Utf8Decode(Tail(Tail(b)))

\* path.read_text(encoding='utf-8')
read_text(kind, tr, name, rawmiss) ==
    LET r == read_bytes(kind, tr, name, rawmiss) IN
    IF r.err # NoError THEN [err |-> r.err, data |-> <<>>]
    ELSE IF ~Utf8Valid(r.data) THEN [err |-> UnicodeDecodeError, data |-> <<>>]
    ELSE [err |-> NoError, data |-> Utf8Decode(r.data)]

\* _keyerror_workaround: a KeyError leaves as a FileNotFoundError
KeepKeyError(err) == err

_keyerror_workaround(err) == IF err = KeyError THEN FileNotFoundError ELSE err

----------------------------------------------------------------------------
(* _glob *)

\* glob_path.glob('*' + ext), each hit relative to resource_path, as_posix
GlobPath_recursive(tr, subdir, ext) ==
    LET d == as_posix(subdir) IN
    IF ~IsDirPath(tr, subdir) THEN {}
    ELSE {e \in Entries(tr) : StartsWith(e, d \o <<sep>>) /\ fnmatch(Name(e), <<"*">> \o ext)}

GlobPath(tr, subdir, ext) ==
    LET d == as_posix(subdir) IN
    IF ~IsDirPath(tr, subdir) THEN {}
    ELSE {JoinParts(PureParts(split(subdir, sep)) \o <<Name(e)>>) :
            e \in {c \in Children(tr, d) : fnmatch(Name(c), <<"*">> \o ext)}}

\* glob_path.iterdir() filtered by name.endswith(ext), joined to subdir
GlobTraversable_nofilter(tr, subdir, ext) ==
    {join(subdir, Name(e)) : e \in Children(tr, as_posix(subdir))}

GlobTraversable(tr, subdir, ext) ==
    {join(subdir, Name(e)) : e \in {c \in Children(tr, as_posix(subdir)) : EndsWith(Name(c), ext)}}

\* the is_dir assertion of the Traversable branch, line 79
GlobIsDir_unchecked(tr, subdir) == TRUE

GlobIsDir(tr, subdir) == IsDirTraversable(tr, subdir)

\* _glob(resource_path, subdir, ext), iterated to its end: the fault, or the names yielded
_glob(kind, tr, subdir, ext) ==
    IF Contains(ext, "*")
        THEN [err |-> AssertionError, why |-> "'*' not in ext", names |-> {}]
    ELSE IF ~StartsWith(ext, <<".">>)
        THEN [err |-> AssertionError, why |-> "ext.startswith('.')", names |-> {}]
    ELSE IF kind = KindPath
        THEN [err |-> NoError, why |-> "", names |-> GlobPath(tr, subdir, ext)]
    ELSE IF ~GlobIsDir(tr, subdir)
        THEN [err |-> AssertionError, why |-> "glob_path.is_dir()", names |-> {}]
    ELSE [err |-> NoError, why |-> "", names |-> GlobTraversable(tr, subdir, ext)]

----------------------------------------------------------------------------
(* read_file, read_file_binary *)

Result(ret, err, why, raw, nreads, c) ==
    [ret |-> ret, err |-> err, why |-> why, raw |-> raw, nreads |-> nreads, cache |-> c]

\* read_file(filename) on cache c: the value or the error, the error the
\* location raised, the number of reads of the location, and the cache after
read_file_storing(filename, c, fr, zp, tr, rawmiss) ==
    IF filename \in DOMAIN c THEN Result(c[filename], NoError, "", NoError, 0, c)
    ELSE
    LET path == _path(filename, fr, zp) IN
    IF path.err # NoError THEN Result(NoValue, path.err, path.why, NoError, 0, c)
    ELSE
    LET r == read_text(path.kind, tr, path.name, rawmiss) IN
    IF r.err # NoError
        THEN Result(NoValue, _keyerror_workaround(r.err), "", r.err, 1, c)
    ELSE Result(r.data, NoError, "", NoError, 1,
                [n \in DOMAIN c \cup {filename} |-> IF n = filename THEN r.data ELSE c[n]])

read_file_undecoded(filename, c, fr, zp, tr, rawmiss) ==
    IF filename \in DOMAIN c THEN Result(c[filename], NoError, "", NoError, 0, c)
    ELSE
    LET path == _path(filename, fr, zp) IN
    IF path.err # NoError THEN Result(NoValue, path.err, path.why, NoError, 0, c)
    ELSE
    LET r == read_bytes(path.kind, tr, path.name, rawmiss) IN
    IF r.err # NoError
        THEN Result(NoValue, _keyerror_workaround(r.err), "", r.err, 1, c)
    ELSE Result(r.data, NoError, "", NoError, 1, c)

read_file(filename, c, fr, zp, tr, rawmiss) ==
    IF filename \in DOMAIN c THEN Result(c[filename], NoError, "", NoError, 0, c)
    ELSE
    LET path == _path(filename, fr, zp) IN
    IF path.err # NoError THEN Result(NoValue, path.err, path.why, NoError, 0, c)
    ELSE
    LET r == read_text(path.kind, tr, path.name, rawmiss) IN
    IF r.err # NoError
        THEN Result(NoValue, _keyerror_workaround(r.err), "", r.err, 1, c)
    ELSE Result(r.data, NoError, "", NoError, 1, c)

\* read_file_binary(filename) on cache c
read_file_binary_cached(filename, c, fr, zp, tr, rawmiss) ==
    IF filename \in DOMAIN c THEN Result(c[filename], NoError, "", NoError, 0, c)
    ELSE
    LET path == _path(filename, fr, zp) IN
    IF path.err # NoError THEN Result(NoValue, path.err, path.why, NoError, 0, c)
    ELSE
    LET r == read_bytes(path.kind, tr, path.name, rawmiss) IN
    Result(r.data, _keyerror_workaround(r.err), "", r.err, 1, c)

read_file_binary(filename, c, fr, zp, tr, rawmiss) ==
    LET path == _path(filename, fr, zp) IN
    IF path.err # NoError THEN Result(NoValue, path.err, path.why, NoError, 0, c)
    ELSE
    LET r == read_bytes(path.kind, tr, path.name, rawmiss) IN
    IF r.err # NoError
        THEN Result(NoValue, _keyerror_workaround(r.err), "", r.err, 1, c)
    ELSE Result(r.data, NoError, "", NoError, 1, c)

----------------------------------------------------------------------------
(* preload *)

HTML == <<"h", "t", "m", "l">>

JAVASCRIPT == <<"j", "a", "v", "a", "s", "c", "r", "i", "p", "t">>

QUIRKS == <<"j", "a", "v", "a", "s", "c", "r", "i", "p", "t", "/", "q", "u", "i", "r", "k", "s">>

EXT_HTML == <<".", "h", "t", "m", "l">>

EXT_JS == <<".", "j", "s">>

\* the (subdir, ext) list of preload
PreloadDirs == <<[subdir |-> HTML, ext |-> EXT_HTML],
                 [subdir |-> JAVASCRIPT, ext |-> EXT_JS],
                 [subdir |-> QUIRKS, ext |-> EXT_JS]>>

\* _cache[name] = value
Store_only(c, name, value) == [n \in {name} |-> value]

Store(c, name, value) ==
    [n \in DOMAIN c \cup {name} |-> IF n = name THEN value ELSE c[n]]

\* the read_file(name) call of the loop body, line 94
PreloadRead_direct(name, c, fr, zp, tr) == read_file(name, <<>>, fr, zp, tr, FileNotFoundError)

PreloadRead(name, c, fr, zp, tr) == read_file(name, c, fr, zp, tr, FileNotFoundError)

\* the inner loop of preload over the names one _glob yields, in the order
\* yielded: the first read_file that fails ends it
RECURSIVE CacheAll(_, _, _, _, _, _)
CacheAll(names, c, nreads, fr, zp, tr) ==
    IF names = <<>> THEN Result(NoValue, NoError, "", NoError, nreads, c)
    ELSE
    LET r == PreloadRead(Head(names), c, fr, zp, tr) IN
    IF r.err # NoError THEN Result(NoValue, r.err, r.why, r.raw, nreads + r.nreads, c)
    ELSE CacheAll(Tail(names), Store(c, Head(names), r.ret),
                  nreads + r.nreads, fr, zp, tr)

\* the sequences a directory listing of the set S can come in
Orders(S) == {o \in [1..Cardinality(S) -> S] : \A i, j \in 1..Cardinality(S) : o[i] = o[j] => i = j}

\* preload() from the i-th entry of its list on; order[i] is the order in
\* which the i-th _glob yields its names
RECURSIVE PreloadFrom(_, _, _, _, _, _, _)
PreloadFrom(i, c, nreads, fr, zp, tr, order) ==
    IF i > Len(PreloadDirs) THEN Result(NoValue, NoError, "", NoError, nreads, c)
    ELSE
    LET resource_path == _path(<<>>, fr, zp)
        g == _glob(resource_path.kind, tr, PreloadDirs[i].subdir, PreloadDirs[i].ext)
    IN
    IF g.err # NoError THEN Result(NoValue, g.err, g.why, NoError, nreads, c)
    ELSE
    LET r == CacheAll(order[i], c, nreads, fr, zp, tr) IN
    IF r.err # NoError THEN r
    ELSE PreloadFrom(i + 1, r.cache, r.nreads, fr, zp, tr, order)

preload(c, fr, zp, tr, order) == PreloadFrom(1, c, 0, fr, zp, tr, order)

\* the names the i-th _glob of preload yields, none when it faults
Yielded(i, fr, zp, tr) ==
    _glob(_path(<<>>, fr, zp).kind, tr, PreloadDirs[i].subdir, PreloadDirs[i].ext).names

----------------------------------------------------------------------------
(* The environment: what the resource root may hold *)

A_HTML == <<"h", "t", "m", "l", "/", "a", ".", "h", "t", "m", "l">>

B_HTML == <<"h", "t", "m", "l", "/", "b", ".", "h", "t", "m", "l">>

C_TXT == <<"h", "t", "m", "l", "/", "c", ".", "t", "x", "t">>

SUB == <<"h", "t", "m", "l", "/", "s", "u", "b">>

SUB_B_HTML == <<"h", "t", "m", "l", "/", "s", "u", "b", "/", "b", ".", "h", "t", "m", "l">>

X_JS == <<"j", "a", "v", "a", "s", "c", "r", "i", "p", "t", "/", "x", ".", "j", "s">>

Q_JS == <<"j", "a", "v", "a", "s", "c", "r", "i", "p", "t", "/", "q", "u", "i", "r", "k", "s", "/", "q", ".", "j", "s">>

DirUniverse == {HTML, SUB, JAVASCRIPT, QUIRKS}

FileUniverse == {A_HTML, B_HTML, C_TXT, SUB_B_HTML, X_JS, Q_JS}

\* the files preload may cache
Cached == {A_HTML, B_HTML, X_JS, Q_JS}

\* those of them whose bytes vary
Varying == {A_HTML, X_JS}

\* "a", the UTF-8 encoding of U+00E9, and a byte no UTF-8 text holds
Plain == <<97>>

Accented == <<195, 169>>

Malformed == <<255>>

Contents == {Plain, Accented, Malformed}

\* the trees in which the directories of optDirs and the files of optFiles
\* may be missing from an existing directory, and the files of vary hold any
\* of Contents
TreeSet(optDirs, optFiles, vary) ==
    LET Ds == {D \in SUBSET DirUniverse :
                /\ \A d \in D : Parent(d) = <<>> \/ Parent(d) \in D
                /\ \A d \in DirUniverse \ optDirs : (Parent(d) = <<>> \/ Parent(d) \in D) => d \in D}
        Fs(D) == {F \in SUBSET FileUniverse :
                /\ \A p \in F : Parent(p) \in D
                /\ \A p \in FileUniverse \ optFiles : Parent(p) \in D => p \in F}
        Bs(F) == {f \in [F -> Contents] : \A p \in F : f[p] \in (IF p \in vary THEN Contents ELSE {Plain})}
    IN UNION {UNION {{[dirs |-> D, files |-> f] : f \in Bs(F)} : F \in Fs(D)} : D \in Ds}

\* the listed subdirectories and the files under them come and go, with any bytes
Trees == TreeSet({HTML, JAVASCRIPT, QUIRKS}, Cached, Varying)

EmptyTree == [dirs |-> {}, files |-> <<>>]

EmptyCache == <<>>

NoCall == [op |-> "none", arg |-> <<>>, ext |-> <<>>, ret |-> NoValue, err |-> NoError,
           why |-> "", raw |-> NoError, nreads |-> 0]

Call(op, arg, ext, r) ==
    [op |-> op, arg |-> arg, ext |-> ext, ret |-> r.ret, err |-> r.err,
     why |-> r.why, raw |-> r.raw, nreads |-> r.nreads]

\* what the archive API may raise for an entry it does not hold
RawMiss == {KeyError, FileNotFoundError}

\* a pathlib.Path raises FileNotFoundError for a missing file
RawMissOf(fr, zp) ==
    IF _path(<<>>, fr, zp).kind = KindTraversable THEN RawMiss ELSE {FileNotFoundError}

\* the names read_file and read_file_binary are called with
MISSING == <<"h", "t", "m", "l", "/", "n", "o", ".", "h", "t", "m", "l">>

DOUBLED == <<"h", "t", "m", "l", "/", "/", "a", ".", "h", "t", "m", "l">>

ABSOLUTE == <<"/", "h", "t", "m", "l", "/", "a", ".", "h", "t", "m", "l">>

UPWARD == <<"h", "t", "m", "l", "/", ".", ".", "/", "h", "t", "m", "l", "/", "a", ".", "h", "t", "m", "l">>

ReadNames == {A_HTML, C_TXT, X_JS, Q_JS, HTML, MISSING, DOUBLED, ABSOLUTE, UPWARD, <<>>}

----------------------------------------------------------------------------
(* The calls *)

Init ==
    /\ frozen \in BOOLEAN
    /\ zipped \in BOOLEAN
    /\ frozen => ~zipped
    /\ tree \in Trees
    /\ cache = EmptyCache
    /\ last = NoCall

Preload ==
    \E o1 \in Orders(Yielded(1, frozen, zipped, tree)),
       o2 \in Orders(Yielded(2, frozen, zipped, tree)),
       o3 \in Orders(Yielded(3, frozen, zipped, tree)) :
        LET r == preload(cache, frozen, zipped, tree, <<o1, o2, o3>>) IN
        /\ cache' = r.cache
        /\ last' = Call("preload", <<>>, <<>>, r)
        /\ UNCHANGED <<frozen, zipped, tree>>

ReadFile ==
    \E filename \in ReadNames, rawmiss \in RawMissOf(frozen, zipped) :
        LET r == read_file(filename, cache, frozen, zipped, tree, rawmiss) IN
        /\ cache' = r.cache
        /\ last' = Call("read_file", filename, <<>>, r)
        /\ UNCHANGED <<frozen, zipped, tree>>

ReadFileBinary ==
    \E filename \in ReadNames, rawmiss \in RawMissOf(frozen, zipped) :
        LET r == read_file_binary(filename, cache, frozen, zipped, tree, rawmiss) IN
        /\ cache' = r.cache
        /\ last' = Call("read_file_binary", filename, <<>>, r)
        /\ UNCHANGED <<frozen, zipped, tree>>

Next == Preload \/ ReadFile \/ ReadFileBinary

Spec == Init /\ [][Next]_vars

----------------------------------------------------------------------------
(* Resources rewritten in place between calls *)

\* run from the package; every directory is there; the cacheable files come and go
InitChange ==
    /\ frozen = FALSE
    /\ zipped \in BOOLEAN
    /\ tree \in TreeSet({}, Cached \ {B_HTML}, {})
    /\ cache = EmptyCache
    /\ last = NoCall

ChangeResource ==
    \E p \in DOMAIN tree.files \cap Varying, b \in Contents :
        /\ b # tree.files[p]
        /\ tree' = [tree EXCEPT !.files[p] = b]
        /\ last' = [NoCall EXCEPT !.op = "change"]
        /\ UNCHANGED <<frozen, zipped, cache>>

NextChange == Preload \/ ReadFile \/ ReadFileBinary \/ ChangeResource

SpecChange == InitChange /\ [][NextChange]_vars

----------------------------------------------------------------------------
(* _path alone, over every short name *)

Alphabet == {sep, ".", "a"}

Names == UNION {[1..n -> Alphabet] : n \in 0..MaxLen}

InitPath ==
    /\ frozen \in BOOLEAN
    /\ zipped \in BOOLEAN
    /\ frozen => ~zipped
    /\ tree = EmptyTree
    /\ cache = EmptyCache
    /\ \E filename \in Names : last = [NoCall EXCEPT !.arg = filename]

PathCall ==
    /\ last.op = "none"
    /\ LET filename == last.arg
           path == _path(filename, frozen, zipped) IN
        /\ last' = [NoCall EXCEPT !.op = "_path", !.arg = filename, !.err = path.err,
                                  !.why = path.why, !.ret = <<path.kind, path.root>>]
        /\ UNCHANGED <<frozen, zipped, tree, cache>>

NextPath == PathCall

SpecPath == InitPath /\ [][NextPath]_vars

----------------------------------------------------------------------------
(* _glob alone, over every shape of the resource root *)

EXT_TXT == <<".", "t", "x", "t">>

EXT_NODOT == <<"j", "s">>

EXT_STAR == <<".", "*">>

EXT_QMARK == <<".", "j", "?">>

GlobSubdirs == DirUniverse

GlobExts == {EXT_HTML, EXT_JS, EXT_TXT, EXT_NODOT, EXT_STAR, EXT_QMARK}

InitGlob ==
    /\ frozen \in BOOLEAN
    /\ zipped \in BOOLEAN
    /\ frozen => ~zipped
    /\ tree \in TreeSet(DirUniverse, FileUniverse, {})
    /\ cache = EmptyCache
    /\ \E subdir \in GlobSubdirs, ext \in GlobExts :
            last = [NoCall EXCEPT !.arg = subdir, !.ext = ext]

Glob ==
    /\ last.op = "none"
    /\ LET subdir == last.arg
           ext == last.ext
           resource_path == _path(<<>>, frozen, zipped)
           g == _glob(resource_path.kind, tree, subdir, ext)
        IN
        /\ last' = [NoCall EXCEPT !.op = "_glob", !.arg = subdir, !.ext = ext,
                                  !.err = g.err, !.why = g.why, !.ret = g.names]
        /\ UNCHANGED <<frozen, zipped, tree, cache>>

NextGlob == Glob

SpecGlob == InitGlob /\ [][NextGlob]_vars

----------------------------------------------------------------------------
(* Properties *)

\* the kind of location the resource root is
Kind == _path(<<>>, frozen, zipped).kind

\* name resolves, under the root, to a file; its bytes
Located(name) ==
    IF Kind = KindPath THEN as_posix(name) \in DOMAIN tree.files ELSE name \in DOMAIN tree.files

LocatedBytes(name) ==
    IF Kind = KindPath THEN tree.files[as_posix(name)] ELSE tree.files[name]

\* name resolves to nothing under the root, neither a file nor a directory
Nonexistent(name) ==
    IF Kind = KindPath
    THEN as_posix(name) # <<>> /\ as_posix(name) \notin Entries(tree)
    ELSE name # <<>> /\ name \notin Entries(tree)
         /\ ~(name[Len(name)] = sep /\ SubSeq(name, 1, Len(name) - 1) \in tree.dirs)

\* name is relative and none of its slash-separated segments is ".."
AbsoluteName(s) == Len(s) >= 1 /\ s[1] = sep

HasPardirSegment(s) ==
    \E i \in 1..(Len(s) - 1) :
        /\ s[i] = "." /\ s[i + 1] = "."
        /\ (i = 1 \/ s[i - 1] = sep)
        /\ (i + 1 = Len(s) \/ s[i + 2] = sep)

ValidName(s) == ~AbsoluteName(s) /\ ~HasPardirSegment(s)

\* C1: read_file returns the cached text when filename is exactly a cache
\* key, otherwise the UTF-8 text of the file it resolves to, and whether it
\* returns or fails the cache after the call is the cache before it.
C1_ReadFileFrame ==
    [][last'.op = "read_file" =>
        /\ cache' = cache
        /\ last'.arg \in DOMAIN cache =>
            last'.err = NoError /\ last'.ret = cache[last'.arg] /\ last'.nreads = 0
        /\ (last'.arg \notin DOMAIN cache /\ ValidName(last'.arg) /\ Located(last'.arg)
                /\ Utf8Valid(LocatedBytes(last'.arg))) =>
            last'.err = NoError /\ last'.ret = Utf8Decode(LocatedBytes(last'.arg))
      ]_vars

\* a successful direct read next to a cache that holds other names
C1_Witness ==
    /\ last.op = "read_file" /\ last.err = NoError /\ last.nreads = 1
    /\ last.arg \notin DOMAIN cache /\ cache # EmptyCache
    /\ last.ret = <<97>>

\* C2: with resources that do not change, read_file of a name preload cached
\* returns what a direct read of the resolved location returns.
C2_CacheTransparency ==
    (last.op = "read_file" /\ last.arg \in DOMAIN cache) =>
        /\ last.err = NoError
        /\ read_text(Kind, tree, last.arg, FileNotFoundError).err = NoError
        /\ last.ret = read_text(Kind, tree, last.arg, FileNotFoundError).data

\* a two-byte character served from the cache
C2_Witness ==
    /\ last.op = "read_file" /\ last.arg \in DOMAIN cache /\ last.nreads = 0
    /\ last.ret = <<233>>

\* C3: read_file and read_file_binary of a valid name that resolves to
\* nothing fail with FileNotFoundError, and neither ever fails with KeyError.
C3_NotFoundNormalised ==
    last.op \in {"read_file", "read_file_binary"} =>
        /\ last.err # KeyError
        /\ (ValidName(last.arg) /\ Nonexistent(last.arg)) => last.err = FileNotFoundError

\* the archive raised KeyError and the caller saw FileNotFoundError
C3_Witness ==
    /\ last.op = "read_file_binary" /\ Kind = KindTraversable
    /\ last.raw = KeyError /\ last.err = FileNotFoundError
    /\ Nonexistent(last.arg)

\* C4: read_file_binary leaves the cache alone, reads the location once on
\* every call with a valid name, and returns the file's current bytes, also
\* for a name the cache holds.
C4_BinaryBypassesCache ==
    [][last'.op = "read_file_binary" =>
        /\ cache' = cache
        /\ ValidName(last'.arg) => last'.nreads = 1
        /\ (ValidName(last'.arg) /\ Located(last'.arg)) =>
            last'.err = NoError /\ last'.ret = LocatedBytes(last'.arg)
      ]_vars

\* bytes read for a cached name whose file was rewritten after it was cached
C4_Witness ==
    /\ last.op = "read_file_binary" /\ last.err = NoError /\ last.nreads = 1
    /\ last.arg \in DOMAIN cache
    /\ last.ret = Accented /\ cache[last.arg] = <<97>>

\* C5: preload raises nothing and caches nothing when none of the listed
\* subdirectories exists, whatever the kind of the resource root.
C5_PreloadToleratesMissingDirs ==
    (last.op = "preload" /\ \A i \in 1..Len(PreloadDirs) : PreloadDirs[i].subdir \notin tree.dirs) =>
        last.err = NoError /\ cache = EmptyCache

\* C6: _path faults exactly for an absolute name or a name with a ".."
\* segment, frozen or not.
C6_PathFaultsExactly ==
    last.op = "_path" =>
        /\ last.err \in {NoError, AssertionError}
        /\ last.err = AssertionError <=> (AbsoluteName(last.arg) \/ HasPardirSegment(last.arg))

\* a frozen run resolves a name that holds ".." inside a segment
C6_Witness ==
    /\ last.op = "_path" /\ frozen /\ last.err = NoError
    /\ last.arg = <<"a", "/", ".", ".", "a">>

\* an extension free of the fnmatch wildcards
NoWildcard(ext) == \A i \in 1..Len(ext) : ext[i] \notin {"*", "?", "["}

\* the entries directly under subdir whose name ends with ext, as subdir/entry
DirectMatches(subdir, ext) ==
    {e \in Entries(tree) :
        /\ StartsWith(e, subdir \o <<sep>>)
        /\ ~Contains(SubSeq(e, Len(subdir) + 2, Len(e)), sep)
        /\ EndsWith(SubSeq(e, Len(subdir) + 2, Len(e)), ext)}

C8_MissingSubdir ==
    (last.op = "_glob" /\ last.arg \notin tree.dirs /\ ~Contains(last.ext, "*")
            /\ StartsWith(last.ext, <<".">>)) =>
        IF Kind = KindTraversable
        THEN last.err = AssertionError /\ last.why = "glob_path.is_dir()"
        ELSE last.err = NoError /\ last.ret = {}

\* javascript is there, javascript/quirks is not, and the archive-backed call faults
C8_Witness ==
    /\ last.op = "_glob" /\ last.arg = QUIRKS /\ JAVASCRIPT \in tree.dirs
    /\ QUIRKS \notin tree.dirs /\ Kind = KindTraversable
    /\ last.err = AssertionError

\* C9 as claimed: when a preload completes, every cache entry holds the
\* content its resource has at that preload.
C9_LastWriteWins ==
    (last.op = "preload" /\ last.err = NoError) =>
        \A n \in DOMAIN cache :
            Utf8Valid(tree.files[n]) /\ cache[n] = Utf8Decode(tree.files[n])

\* C9 amended: a preload leaves every entry already cached as it is, and a
\* preload that completes adds the names not yet cached with their content
\* at that time.
C9_FirstWriteWins ==
    [][last'.op = "preload" =>
        /\ \A n \in DOMAIN cache : n \in DOMAIN cache' /\ cache'[n] = cache[n]
        /\ last'.err = NoError =>
            \A n \in DOMAIN cache' \ DOMAIN cache : cache'[n] = Utf8Decode(tree.files[n])
      ]_vars

\* a second preload completed over an entry whose file was rewritten
C9_Witness ==
    /\ last.op = "preload" /\ last.err = NoError /\ last.nreads = 0
    /\ \E n \in DOMAIN cache : cache[n] = <<97>> /\ tree.files[n] = Accented

\* the names preload is to cache: subdir/entry, entry one segment ending with ext
Cacheable(n) ==
    \E i \in 1..Len(PreloadDirs) :
        LET subdir == PreloadDirs[i].subdir
            entry == SubSeq(n, Len(subdir) + 2, Len(n))
        IN  /\ StartsWith(n, subdir \o <<sep>>)
            /\ entry # <<>>
            /\ ~Contains(entry, sep)
            /\ EndsWith(entry, PreloadDirs[i].ext)

\* C10: every cache key is a cacheable name; a preload that completes on an
\* empty cache leaves exactly the cacheable entries present as keys; no
\* step removes a key.
C10_CacheKeys ==
    /\ [](\A n \in DOMAIN cache : Cacheable(n))
    /\ [][(last'.op = "preload" /\ cache = EmptyCache /\ last'.err = NoError) =>
            DOMAIN cache' = {e \in Entries(tree) : Cacheable(e)}]_vars
    /\ [][DOMAIN cache \subseteq DOMAIN cache']_vars

\* a completed preload cached a file of each listed subdirectory
C10_Witness ==
    /\ last.op = "preload" /\ last.err = NoError /\ last.nreads = 4
    /\ DOMAIN cache = {A_HTML, B_HTML, X_JS, Q_JS}
    /\ SUB_B_HTML \in DOMAIN tree.files /\ C_TXT \in DOMAIN tree.files

====
